---------------------------- MODULE Spec2Model ----------------------------
(***************************************************************************)
(* Crawl-and-ingest engine of the multi-site scraper add-on               *)
(* (src/addon.js; src/unnamed/part_000 is the mongoose variant of the     *)
(* same program).                                                         *)
(*                                                                         *)
(* The program is a single-threaded event loop: every `await` is a point  *)
(* where another refresh cycle or request handler may run.  Each action   *)
(* below is the code between two awaits of one asynchronous call chain.   *)
(*                                                                         *)
(* URLs are kept in the state as strings; Bytes gives the characters of   *)
(* each one (ASCII codes), and every string computation of the code       *)
(* (startsWith, hostname, the media regexes, base64) is done on them.     *)
(***************************************************************************)
EXTENDS Integers, Sequences, FiniteSets, Bags, TLC

(* ------------------------------ bounds -------------------------------- *)
\* refresh cycles that may be started (the startup one included)
MaxCycles == 3
\* refresh cycles that may be in progress at the same time
MaxLive == 2
\* entries the site list may hold
MaxSites == 2
\* what may go wrong in one behaviour: calls of the browser or of the store
\* that reject, and requests with a missing or malformed url
MaxFaults == 1

Cycles == 1..MaxCycles

(* --------------------------- the URLs in play -------------------------- *)
UA == "http://a.co/"
UP == "http://a.co/p"
UX == "http://a.co.b.co/"
UB == "http://b.co/"
M1 == "http://c.co/m.mp4"
M2 == "http://d.co/v.MOV"
\* a request body without url, and one whose url has no scheme
NoUrl == ""
BadUrl == "a.co"

Bytes(s) ==
  CASE s = "http://a.co/"      -> <<104, 116, 116, 112, 58, 47, 47, 97, 46, 99, 111, 47>>
    [] s = "http://a.co/p"     -> <<104, 116, 116, 112, 58, 47, 47, 97, 46, 99, 111, 47, 112>>
    [] s = "http://a.co.b.co/" -> <<104, 116, 116, 112, 58, 47, 47, 97, 46, 99, 111, 46, 98, 46, 99, 111, 47>>
    [] s = "http://b.co/"      -> <<104, 116, 116, 112, 58, 47, 47, 98, 46, 99, 111, 47>>
    [] s = "http://c.co/m.mp4" -> <<104, 116, 116, 112, 58, 47, 47, 99, 46, 99, 111, 47, 109, 46, 109, 112, 52>>
    [] s = "http://d.co/v.MOV" -> <<104, 116, 116, 112, 58, 47, 47, 100, 46, 99, 111, 47, 118, 46, 77, 79, 86>>
    [] s = "a.co"              -> <<97, 46, 99, 111>>
    [] s = ""                  -> <<>>

(* --------------------------- string helpers --------------------------- *)
\* String.prototype.startsWith
StartsWith(s, p) == Len(p) <= Len(s) /\ SubSeq(s, 1, Len(p)) = p

EndsWith(s, p) == Len(p) <= Len(s) /\ SubSeq(s, Len(s) - Len(p) + 1, Len(s)) = p

Contains(s, p) == \E i \in 1..(Len(s) - Len(p) + 1) : SubSeq(s, i, i + Len(p) - 1) = p

IsLetter(c) == (c >= 97 /\ c <= 122) \/ (c >= 65 /\ c <= 90)

LowerByte(c) == IF c >= 65 /\ c <= 90 THEN c + 32 ELSE c

Lower(s) == [i \in 1..Len(s) |-> LowerByte(s[i])]

\* the first index >= from whose byte is in stops, Len(s)+1 when there is none
RECURSIVE FirstOf(_, _, _)
FirstOf(s, from, stops) ==
  IF from > Len(s) THEN Len(s) + 1
  ELSE IF s[from] \in stops THEN from
  ELSE FirstOf(s, from + 1, stops)

(* ------------------------------ new URL() ------------------------------ *)
\* position of the ':' that ends the scheme, 0 when the string has no scheme
SchemeEnd(b) ==
  LET i == FirstOf(b, 1, {58})
  IN IF i > 1 /\ i <= Len(b) /\ (\A j \in 1..(i - 1) : IsLetter(b[j])) THEN i ELSE 0

\* new URL(url) does not throw: a scheme, "//" and a non-empty host
IsValidURL(b) ==
  LET i == SchemeEnd(b)
  IN /\ i > 0
     /\ Len(b) >= i + 3
     /\ b[i + 1] = 47 /\ b[i + 2] = 47
     /\ b[i + 3] \notin {47, 63, 35, 58}

\* first index after the authority (host and port)
AuthorityEnd(b) == FirstOf(b, SchemeEnd(b) + 3, {47, 63, 35})

\* location.origin: scheme, "://", host and port
Origin(b) == SubSeq(b, 1, AuthorityEnd(b) - 1)

\* new URL(url).hostname: the host without the port, lower-cased
Hostname(b) ==
  LET s == SchemeEnd(b) + 3
      e == FirstOf(b, s, {47, 63, 35, 58})
  IN Lower(SubSeq(b, s, e - 1))

\* `catalog-${hostname.replace(/\./g, '-')}`
CatalogId(b) ==
  LET h == Hostname(b)
  IN <<99, 97, 116, 97, 108, 111, 103, 45>> \o [i \in 1..Len(h) |-> IF h[i] = 46 THEN 45 ELSE h[i]]

(* ---------------------------- media filter ----------------------------- *)
\* .mp4 .m3u8 .avi .mov
MediaExts ==
  { <<46, 109, 112, 52>>, <<46, 109, 51, 117, 56>>, <<46, 97, 118, 105>>, <<46, 109, 111, 118>> }

\* vidstream dood streamsb streamtape
MediaHosts ==
  { <<118, 105, 100, 115, 116, 114, 101, 97, 109>>, <<100, 111, 111, 100>>,
    <<115, 116, 114, 101, 97, 109, 115, 98>>, <<115, 116, 114, 101, 97, 109, 116, 97, 112, 101>> }

\* /\.(mp4|m3u8|avi|mov)$/i.test(link) || /vidstream|dood|streamsb|streamtape/.test(link)
IsMedia(b) ==
  \/ \E e \in MediaExts : EndsWith(Lower(b), e)
  \/ \E h \in MediaHosts : Contains(b, h)

(* -------------------------- Buffer.from(string) ------------------------ *)
Latin1(s) == [i \in 1..Len(s) |-> s[i] % 256]

\* Buffer.from(string): the UTF-8 bytes of a string given as its UTF-16 code
\* units, for code units outside the surrogate range
RECURSIVE Utf8(_)
Utf8(s) ==
  IF Len(s) = 0 THEN << >>
  ELSE LET u == s[1]
           head == IF u < 128 THEN << u >>
                   ELSE IF u < 2048 THEN << 192 + (u \div 64), 128 + (u % 64) >>
                   ELSE << 224 + (u \div 4096), 128 + ((u \div 64) % 64), 128 + (u % 64) >>
       IN head \o Utf8(SubSeq(s, 2, Len(s)))

(* ------------------------------- base64 -------------------------------- *)
\* Buffer.from(videoUrl).toString('base64'): the output as indexes into the
\* base64 alphabet, 64 standing for the padding character '='
RECURSIVE Base64(_)
Base64(b) ==
  IF Len(b) = 0 THEN <<>>
  ELSE IF Len(b) = 1 THEN
    << b[1] \div 4, (b[1] % 4) * 16, 64, 64 >>
  ELSE IF Len(b) = 2 THEN
    << b[1] \div 4, (b[1] % 4) * 16 + (b[2] \div 16), (b[2] % 16) * 4, 64 >>
  ELSE
    << b[1] \div 4, (b[1] % 4) * 16 + (b[2] \div 16),
       (b[2] % 16) * 4 + (b[3] \div 64), b[3] % 64 >> \o Base64(SubSeq(b, 4, Len(b)))

\* every URL of the model
Urls ==
  { "http://a.co/", "http://a.co/p", "http://a.co.b.co/", "http://b.co/",
    "http://c.co/m.mp4", "http://d.co/v.MOV" }

\* the base64 text of each URL, computed once
Base64Of == [u \in Urls |-> Base64(Bytes(u))]

\* const entryId = Buffer.from(videoUrl).toString('base64')
EntryId(videoUrl) == Base64Of[videoUrl]


(* ------------------------------ the web -------------------------------- *)
\* an element matched by 'a[href], iframe[src]': its tag and its href or src
El(tag, href) == [tag |-> tag, href |-> href]

\* the document the browser shows at each URL ("" is an absent title or meta tag)
Document(u) ==
  CASE u = UA -> [title |-> "A", description |-> "about A", image |-> "",
                  elements |-> << El("a", UP), El("a", UP), El("a", UX), El("a", UB),
                                  El("iframe", M1) >>]
    [] u = UP -> [title |-> "P", description |-> "", image |-> "p.png",
                  elements |-> << El("a", UA), El("a", M1) >>]
    [] u = UX -> [title |-> "", description |-> "", image |-> "",
                  elements |-> << El("iframe", M2) >>]
    [] OTHER  -> [title |-> "", description |-> "", image |-> "", elements |-> << >>]

\* the value page.evaluate has not produced yet
NoData == [title |-> "", description |-> "", image |-> "", videos |-> << >>, subLinks |-> << >>]

\* document.querySelector(selector)?.content || 'No Data'
getContent(content) == IF content = "" THEN "No Data" ELSE content

Hrefs(els) == [i \in 1..Len(els) |-> els[i].href]

\* querySelectorAll('a[href], iframe[src]').map(el => el.href || el.src).filter(media)
Videos(doc) ==
  LET media(h) == IsMedia(Bytes(h))
  IN SelectSeq(Hrefs(doc.elements), media)

\* href.startsWith(location.origin)
SameOriginTest(href, origin) == StartsWith(Bytes(href), origin)

\* querySelectorAll('a[href]').map(a => a.href).filter(href => href.startsWith(location.origin))
SubLinks(u, doc) ==
  LET isA(e) == e.tag = "a"
      keep(h) == SameOriginTest(h, Origin(Bytes(u)))
  IN SelectSeq(Hrefs(SelectSeq(doc.elements, isA)), keep)

\* the callback of page.evaluate, run in the page at u
Evaluate(u) ==
  LET doc == Document(u)
  IN [title       |-> IF doc.title = "" THEN "No Title" ELSE doc.title,
      description |-> getContent(doc.description),
      image       |-> getContent(doc.image),
      videos      |-> Videos(doc),
      subLinks    |-> SubLinks(u, doc)]

\* what page.evaluate returns at each URL, computed once
Evaluated == [u \in Urls |-> Evaluate(u)]

\* const data = await page.evaluate(...)
ExtractData(u) == Evaluated[u]

(* ------------------------------ the store ------------------------------ *)
\* the documents of the collection that match the filter { id, catalogId }
Matching(coll, filter) ==
  { d \in BagToSet(coll) : d.id = filter.id /\ d.catalogId = filter.catalogId }

ApplySetOnInsertOnly(doc, fields) == doc

\* { $set: fields } applied to one document
ApplySet(doc, fields) ==
  [f \in DOMAIN doc |-> IF f \in DOMAIN fields THEN fields[f] ELSE doc[f]]

insertOne(coll, filter, fields) == coll (+) SetToBag({fields})

\* collection.updateOne(filter, { $set: fields }, { upsert: true }), one atomic
\* operation of the store: one matching document is updated, and the fields
\* are inserted as a new document when none matches
updateOne(coll, filter, fields) ==
  IF Matching(coll, filter) # {}
  THEN LET d == CHOOSE d \in Matching(coll, filter) : TRUE
       IN (coll (-) SetToBag({d})) (+) SetToBag({ApplySet(d, fields)})
  ELSE coll (+) SetToBag({fields})

\* the document scrapeSite writes for videoUrl found on a page with this data
EntryDoc(catalogId, videoUrl, data) ==
  [catalogId |-> catalogId, id |-> EntryId(videoUrl), name |-> data.title,
   description |-> data.description, poster |-> data.image, videoUrl |-> videoUrl]

(* --------------------------- fetchPageData ----------------------------- *)
\* the awaited browser calls of fetchPageData, in the order it makes them
FetchSteps == {"newPage", "setUserAgent", "goto", "evaluate", "close", "closeInCatch"}

\* the sets of calls that can fail in one fetchPageData call: the first failure
\* ends the straight path, and page.close() of the catch block is only
\* reached after a failure inside the try block
FailureSets ==
  { F \in SUBSET FetchSteps :
      /\ Cardinality(F \ {"closeInCatch"}) <= 1
      /\ "closeInCatch" \in F => F \cap {"goto", "evaluate", "close"} # {} }

\* fetchPageData(url, browser) when the calls in F reject: what the call
\* produces ("data", "null" or "throw") and how many pages it leaves open.
\* newPage and setUserAgent are outside the try block; goto, evaluate and the
\* first page.close() are inside it; the catch block closes the page again
fetchPageData(url, F) ==
  IF "newPage" \in F THEN [kind |-> "throw", open |-> 0, data |-> NoData]
  ELSE IF "setUserAgent" \in F THEN [kind |-> "throw", open |-> 1, data |-> NoData]
  ELSE IF F \cap {"goto", "evaluate", "close"} # {}
  THEN IF "closeInCatch" \in F
       THEN [kind |-> "throw", open |-> 1, data |-> NoData]
       ELSE [kind |-> "null", open |-> 0, data |-> NoData]
  ELSE [kind |-> "data", open |-> 0, data |-> ExtractData(url)]

(* ------------------------------- state --------------------------------- *)
VARIABLES
  sitesToScrape,  \* the in-memory site list: sequence of [url, id]
  db,             \* TRUE once initializeDB has set db
  store,          \* the scraped_entries collection: a bag of documents
  nCycles,        \* refreshScraping calls made so far
  faults,         \* what has gone wrong so far
  rejected,       \* outcomes of the requests that never reached the site list
  cycle           \* per refreshScraping call, the record described at NewCycle

vars == << sitesToScrape, db, store, nCycles, faults, rejected, cycle >>

\* one refreshScraping call: the asynchronous call chain and what it has done
NewCycle ==
  [ rpc       |-> "idle",   \* idle, launch, loop, walk, closing, done, failed
    browser   |-> "none",   \* none, open, closed
    siteIdx   |-> 0,        \* sites the for..of loop has taken
    stack     |-> << >>,    \* chain of scrapeSite calls, innermost last
    visited   |-> {},       \* the Visited Set of the walk in progress
    pages     |-> 0,        \* pages left open in the browser
    reply     |-> "none",   \* response of the request that started the cycle
    \* history
    atStart   |-> 0,        \* length of the site list when the cycle started
    atEnd     |-> 0,        \* length of the site list when the sites loop ended
    fetchLog  |-> << >>,    \* fetchPageData calls: [k, url, from]
    okSet     |-> {},       \* <<k, url>> whose fetch returned data
    skipLog   |-> {},       \* [k, url] calls ended by the cycle guard
    upsertLog |-> {},       \* [k, catalogId, videoUrl] written to the store
    walkEnd   |-> << >>,    \* how each top-level scrapeSite call ended
    clean     |-> TRUE ]    \* nothing has failed in the cycle

\* a scrapeSite call: its arguments, the page that linked to it, where it is
Frame(url, id, from) ==
  [url |-> url, id |-> id, from |-> from, pc |-> "enter", data |-> NoData, vi |-> 0, si |-> 0]

Top(c) == c.stack[Len(c.stack)]
SetTop(c, f) == [c EXCEPT !.stack = [@ EXCEPT ![Len(@)] = f]]

Init ==
  /\ sitesToScrape = << >>
  /\ db = FALSE
  /\ store = EmptyBag
  /\ nCycles = 1
  /\ faults = 0
  /\ rejected = << >>
  \* refreshScraping() of the last line of start-up awaits puppeteer.launch
  /\ cycle = [r \in Cycles |-> IF r = 1 THEN [NewCycle EXCEPT !.rpc = "launch"] ELSE NewCycle]

(* ------------------ the code that runs between two awaits --------------- *)
\* the innermost scrapeSite call returns; the call that awaits it resumes its
\* subLinks loop, or refreshScraping its sites loop when it was the outermost
Return(c) ==
  IF Len(c.stack) = 1
  THEN [c EXCEPT !.stack = << >>, !.rpc = "loop", !.walkEnd = Append(@, "returned")]
  ELSE [c EXCEPT !.stack = SubSeq(@, 1, Len(@) - 1)]

\* an exception leaves the innermost call: no scrapeSite call and neither
\* refreshScraping nor the request handler catches it, so the whole chain
\* rejects; browser.close() and res.send() are not reached
Throw(c, cause) ==
  [c EXCEPT !.stack = << >>, !.rpc = "failed", !.walkEnd = Append(@, cause), !.clean = FALSE]

VisitedHasNever(v, url) == FALSE

\* visited.has(url)
VisitedHas(v, url) == url \in v

NewVisitedKept(old) == old

\* the default argument visited = new Set() of a top-level call
NewVisited(old) == {}

ChildSiteOwnCatalog(subLink, catalogId) == [url |-> subLink, id |-> CatalogId(Bytes(subLink))]

\* the site object of the recursive call: { url: subLink, id: catalogId }
ChildSite(subLink, catalogId) == [url |-> subLink, id |-> catalogId]

\* scrapeSite up to its first await: the cycle guard, then fetchPageData is called
scrapeSiteEnter(c) ==
  LET f == Top(c)
  IN IF VisitedHas(c.visited, f.url)
     THEN Return([c EXCEPT !.skipLog = @ \cup {[k |-> c.siteIdx, url |-> f.url]}])
     ELSE SetTop([c EXCEPT !.visited = @ \cup {f.url},
                           !.fetchLog = Append(@, [k |-> c.siteIdx, url |-> f.url, from |-> f.from])],
                 [f EXCEPT !.pc = "fetch"])

scrapeSiteLinksFirst(c) == SetTop(c, [Top(c) EXCEPT !.pc = "subLinks"])

\* for (const videoUrl of videos): db.collection(...).updateOne(...) is called;
\* db.collection throws a TypeError while db is undefined
scrapeSiteVideos(c) ==
  LET f == Top(c)
  IN IF f.vi < Len(f.data.videos)
     THEN IF db THEN SetTop(c, [f EXCEPT !.pc = "upsert", !.vi = @ + 1])
          ELSE Throw(c, "db is undefined")
     ELSE SetTop(c, [f EXCEPT !.pc = "subLinks"])

\* for (const subLink of subLinks) await scrapeSite({url: subLink, id: catalogId}, browser, visited)
scrapeSiteSubLinks(c) ==
  LET f == Top(c)
  IN IF f.si < Len(f.data.subLinks)
     THEN LET site == ChildSite(f.data.subLinks[f.si + 1], f.id)
              c1 == SetTop(c, [f EXCEPT !.si = @ + 1])
          IN [c1 EXCEPT !.stack = Append(@, Frame(site.url, site.id, f.url))]
     ELSE Return(c)

refreshLoopOverCopy(c) ==
  IF c.siteIdx < c.atStart
  THEN LET site == sitesToScrape[c.siteIdx + 1]
       IN [c EXCEPT !.siteIdx = @ + 1,
                    !.stack = << Frame(site.url, site.id, "") >>,
                    !.visited = NewVisited(@),
                    !.rpc = "walk"]
  ELSE [c EXCEPT !.rpc = "closing", !.atEnd = Len(sitesToScrape)]

\* for (const site of sitesToScrape) await scrapeSite(site, browser): the array
\* iterator reads the live list; after the last site browser.close() is called
refreshLoop(c) ==
  IF c.siteIdx < Len(sitesToScrape)
  THEN LET site == sitesToScrape[c.siteIdx + 1]
       IN [c EXCEPT !.siteIdx = @ + 1,
                    !.stack = << Frame(site.url, site.id, "") >>,
                    !.visited = NewVisited(@),
                    !.rpc = "walk"]
  ELSE [c EXCEPT !.rpc = "closing", !.atEnd = Len(sitesToScrape)]

\* the call chain waits for the browser or the store
AtAwait(c) ==
  \/ c.rpc \in {"idle", "launch", "closing", "done", "failed"}
  \/ c.rpc = "walk" /\ Top(c).pc \in {"fetch", "upsert"}

\* one statement of the code that runs without awaiting anything
Statement(c) ==
  IF c.rpc = "loop" THEN refreshLoop(c)
  ELSE CASE Top(c).pc = "enter"    -> scrapeSiteEnter(c)
         [] Top(c).pc = "videos"   -> scrapeSiteVideos(c)
         [] Top(c).pc = "subLinks" -> scrapeSiteSubLinks(c)

\* run the call chain up to its next await
RECURSIVE Run(_)
Run(c) == IF AtAwait(c) THEN c ELSE Run(Statement(c))

Fetching(r) == cycle[r].rpc = "walk" /\ Top(cycle[r]).pc = "fetch"
Upserting(r) == cycle[r].rpc = "walk" /\ Top(cycle[r]).pc = "upsert"

(* ------------------------------- actions ------------------------------- *)
\* await puppeteer.launch({ headless: true }) completes
Launch(r) ==
  /\ cycle[r].rpc = "launch"
  /\ cycle' = [cycle EXCEPT ![r] = Run([@ EXCEPT !.browser = "open", !.rpc = "loop"])]
  /\ UNCHANGED << sitesToScrape, db, store, nCycles, faults, rejected >>

\* await fetchPageData(url, browser) completes, the calls in F having failed;
\* scrapeSite goes on: `if (!data) return`, else the videos loop
FetchDone(r, F) ==
  /\ Fetching(r)
  /\ faults + Cardinality(F) <= MaxFaults
  /\ faults' = faults + Cardinality(F)
  /\ LET c == cycle[r]
         f == Top(c)
         out == fetchPageData(f.url, F)
         c1 == [c EXCEPT !.pages = @ + out.open, !.clean = @ /\ F = {}]
     IN cycle' = [cycle EXCEPT ![r] =
          Run(CASE out.kind = "throw" -> Throw(c1, "fetchPageData threw")
                [] out.kind = "null"  -> Return(c1)
                [] out.kind = "data"  ->
                     SetTop([c1 EXCEPT !.okSet = @ \cup {<< c.siteIdx, f.url >>}],
                            [f EXCEPT !.pc = "videos", !.data = out.data]))]
  /\ UNCHANGED << sitesToScrape, db, store, nCycles, rejected >>

\* the awaited updateOne completes: the store has applied it, or has rejected it
UpsertDone(r, ok) ==
  /\ Upserting(r)
  /\ LET c == cycle[r]
         f == Top(c)
         videoUrl == f.data.videos[f.vi]
         doc == EntryDoc(f.id, videoUrl, f.data)
     IN IF ok
        THEN /\ store' = updateOne(store, [id |-> EntryId(videoUrl), catalogId |-> f.id], doc)
             /\ cycle' = [cycle EXCEPT ![r] =
                  Run(SetTop([c EXCEPT !.upsertLog = @ \cup {[k |-> c.siteIdx, catalogId |-> doc.catalogId,
                                                           videoUrl |-> doc.videoUrl]}],
                             [f EXCEPT !.pc = "videos"]))]
             /\ UNCHANGED faults
        ELSE /\ faults < MaxFaults
             /\ faults' = faults + 1
             /\ cycle' = [cycle EXCEPT ![r] = Throw(c, "updateOne rejected")]
             /\ UNCHANGED store
  /\ UNCHANGED << sitesToScrape, db, nCycles, rejected >>

\* await browser.close() completes and refreshScraping returns; the request
\* handler that awaited it sends { success: true, catalogId }
CloseBrowser(r) ==
  /\ cycle[r].rpc = "closing"
  /\ cycle' = [cycle EXCEPT ![r] = [@ EXCEPT !.browser = "closed", !.rpc = "done",
                                              !.reply = IF @ = "pending" THEN "success" ELSE @]]
  /\ UNCHANGED << sitesToScrape, db, store, nCycles, faults, rejected >>

\* the refresh cycles in progress
Live == { r \in Cycles : cycle[r].rpc \in {"launch", "loop", "walk", "closing"} }

\* the model starts another refreshScraping call only within its bounds
MayStart == nCycles < MaxCycles /\ Cardinality(Live) < MaxLive

StartCycleQueued(rep, nSites) ==
  [NewCycle EXCEPT !.rpc = IF Live = {} THEN "launch" ELSE "idle", !.reply = rep, !.atStart = nSites]

StartCycleNewSiteOnly(rep, nSites) ==
  [NewCycle EXCEPT !.rpc = "launch", !.reply = rep, !.atStart = nSites,
                   !.siteIdx = IF nSites > 0 THEN nSites - 1 ELSE 0]

\* refreshScraping() is called: the cycle begins with puppeteer.launch
StartCycle(rep, nSites) ==
  [NewCycle EXCEPT !.rpc = "launch", !.reply = rep, !.atStart = nSites]

\* cron.schedule('0 */2 * * *', refreshScraping) fires
CronTick ==
  /\ MayStart
  /\ nCycles' = nCycles + 1
  /\ cycle' = [cycle EXCEPT ![nCycles + 1] = StartCycle("none", Len(sitesToScrape))]
  /\ UNCHANGED << sitesToScrape, db, store, faults, rejected >>

\* what the caller sees when the async handler rejects before it has answered:
\* the handler has no try/catch, so it is the router's doing; a router that
\* ignores the returned promise leaves the request unanswered, one that
\* forwards the rejection to the default error handler answers 500
HandlerThrew == {"no response", "500 Internal Server Error"}

\* app.post('/add-site') up to its await: 400 for a missing url, an exception
\* from new URL() for a malformed one, else push the site and call refreshScraping
AddSite(url) ==
  IF url = NoUrl
  THEN /\ faults < MaxFaults
       /\ faults' = faults + 1
       /\ rejected' = Append(rejected, "400 Missing URL")
       /\ UNCHANGED << sitesToScrape, db, store, nCycles, cycle >>
  ELSE IF ~IsValidURL(Bytes(url))
  THEN /\ faults < MaxFaults
       /\ faults' = faults + 1
       /\ \E outcome \in HandlerThrew : rejected' = Append(rejected, outcome)
       /\ UNCHANGED << sitesToScrape, db, store, nCycles, cycle >>
  ELSE /\ Len(sitesToScrape) < MaxSites
       /\ MayStart
       /\ sitesToScrape' = Append(sitesToScrape, [url |-> url, id |-> CatalogId(Bytes(url))])
       /\ nCycles' = nCycles + 1
       /\ cycle' = [cycle EXCEPT ![nCycles + 1] = StartCycle("pending", Len(sitesToScrape) + 1)]
       /\ UNCHANGED << db, store, faults, rejected >>

\* the urls requests carry
RequestUrls == {NoUrl, BadUrl, UA, UX}

\* initializeDB: await client.connect() completes and db is set
InitializeDB ==
  /\ ~db
  /\ db' = TRUE
  /\ UNCHANGED << sitesToScrape, store, nCycles, faults, rejected, cycle >>

Next ==
  \/ \E r \in Cycles : Launch(r)
  \/ \E r \in Cycles, F \in FailureSets : FetchDone(r, F)
  \/ \E r \in Cycles, ok \in BOOLEAN : UpsertDone(r, ok)
  \/ \E r \in Cycles : CloseBrowser(r)
  \/ CronTick
  \/ \E url \in RequestUrls : AddSite(url)
  \/ InitializeDB

Spec == Init /\ [][Next]_vars

(* ------------- the entry id of arbitrary media urls (line 104) ---------- *)
\* longest url string derived, and the most entries stored
MaxUrlLen == 4
MaxEntries == 2

\* the code units the url strings are made of: '/', 'a', and U+0161, a
\* character of two UTF-8 bytes whose low byte is that of 'a'
CodeUnits == {47, 97, 353}

UrlStrings == UNION { [1..n -> CodeUnits] : n \in 0..MaxUrlLen }

\* connected, nothing registered, one walk of a site in progress
EntryInit ==
  /\ sitesToScrape = << >>
  /\ db = TRUE
  /\ store = EmptyBag
  /\ nCycles = 1
  /\ faults = 0
  /\ rejected = << >>
  /\ cycle = [r \in Cycles |-> IF r = 1 THEN [NewCycle EXCEPT !.rpc = "walk", !.browser = "open"]
                                ELSE NewCycle]

\* the body of `for (const videoUrl of videos)` for a media link videoUrl:
\* the entry id is derived from the url and the entry is upserted
StoreEntry(videoUrl) ==
  LET entryId == Base64(Utf8(videoUrl))
      catalogId == CatalogId(Bytes(UA))
      doc == [catalogId |-> catalogId, id |-> entryId, name |-> "No Title",
              description |-> "No Data", poster |-> "No Data", videoUrl |-> videoUrl]
  IN /\ Cardinality({ e.videoUrl : e \in cycle[1].upsertLog } \cup {videoUrl}) <= MaxEntries
     /\ store' = updateOne(store, [id |-> entryId, catalogId |-> catalogId], doc)
     /\ cycle' = [cycle EXCEPT ![1].upsertLog =
                    @ \cup {[k |-> 1, catalogId |-> catalogId, videoUrl |-> videoUrl]}]
     /\ UNCHANGED << sitesToScrape, db, nCycles, faults, rejected >>

EntryNext == \E videoUrl \in UrlStrings : StoreEntry(videoUrl)

SpecEntryId == EntryInit /\ [][EntryNext]_vars

(* ------------------------------ properties ----------------------------- *)
Ended(r) == cycle[r].rpc \in {"done", "failed"}

\* the urls fetched in the k-th walk of cycle r
FetchedIn(r, k) ==
  { cycle[r].fetchLog[i].url : i \in { j \in 1..Len(cycle[r].fetchLog) : cycle[r].fetchLog[j].k = k } }

\* C1: within one walk no URL is handed to fetchPageData twice, whether its
\* first fetch returned data, returned null or threw
C1_FetchedAtMostOnce ==
  \A r \in Cycles :
    \A i, j \in 1..Len(cycle[r].fetchLog) :
      ( /\ i # j
        /\ cycle[r].fetchLog[i].k = cycle[r].fetchLog[j].k )
      => cycle[r].fetchLog[i].url # cycle[r].fetchLog[j].url

\* one walk met the link back to its seed (the cycle A -> P -> A), and another
\* the second copy of a link whose fetch had failed
C1_Witness ==
  /\ \E r \in Cycles : [k |-> 1, url |-> UA] \in cycle[r].skipLog
  /\ \E r \in Cycles : /\ [k |-> 1, url |-> UP] \in cycle[r].skipLog
                       /\ << 1, UP >> \notin cycle[r].okSet

\* the k-th walk of cycle r has fetched its seed and every link that a page it
\* fetched successfully handed to the recursion
VisitedAllReachable(r, k) ==
  /\ sitesToScrape[k].url \in FetchedIn(r, k)
  /\ \A u \in FetchedIn(r, k) :
       << k, u >> \in cycle[r].okSet =>
         \A i \in 1..Len(ExtractData(u).subLinks) : ExtractData(u).subLinks[i] \in FetchedIn(r, k)

\* C2: a walk in which no fetch threw ends by returning, after it has visited
\* every reachable page (exactly once, by C1)
C2_WalkReturnsHavingVisitedAll ==
  \A r \in Cycles :
    \A k \in 1..Len(cycle[r].walkEnd) :
      cycle[r].walkEnd[k] # "fetchPageData threw" =>
        /\ cycle[r].walkEnd[k] = "returned"
        /\ VisitedAllReachable(r, k)

Writable ==
  { EntryDoc(sitesToScrape[k].id, v, ExtractData(u)) :
      k \in 1..Len(sitesToScrape), v \in {M1, M2}, u \in {UA, UP, UX} }

Key(d) == [id |-> d.id, catalogId |-> d.catalogId]

\* C4: from every reachable store, upsert A then upsert B on the same key
\* leaves exactly one document for the key, equal to B in every field, and
\* repeating the upsert of B changes nothing
C4_LastWriteWins ==
  \A A, B \in Writable :
    Key(A) = Key(B) =>
      LET s1 == updateOne(store, Key(A), A)
          s2 == updateOne(s1, Key(B), B)
      IN /\ Matching(s2, Key(B)) = {B}
         /\ CopiesIn(B, s2) = 1
         /\ updateOne(s2, Key(B), B) = s2
         /\ \A d \in BagToSet(store) : Key(d) # Key(B) => CopiesIn(d, s2) = CopiesIn(d, store)

\* a walk wrote M1 with the fields of page A and then again with those of page P
C4_Witness ==
  /\ EntryDoc(CatalogId(Bytes(UA)), M1, ExtractData(UP)) \in BagToSet(store)
  /\ \E r \in Cycles : { << 1, UA >>, << 1, UP >> } \subseteq cycle[r].okSet

\* C5: a refresh cycle that is over has walked every site that was registered
\* when it started, whatever failed while it walked one of them
C5_FailureIsolation ==
  \A r \in Cycles : Ended(r) => cycle[r].siteIdx >= cycle[r].atStart

\* C6: a refresh cycle that is over has closed the browser it launched
C6_BrowserReleased ==
  \A r \in Cycles : Ended(r) => cycle[r].browser # "open"

\* C7: no fetchPageData call leaves a page open
C7_PagesReleased ==
  \A r \in Cycles : cycle[r].pages = 0

\* C8: every document written in the walk of a registered site carries that
\* site's catalog id, and so does every document in the store
C8_CatalogPreserved ==
  /\ \A r \in Cycles : \A e \in cycle[r].upsertLog : e.catalogId = sitesToScrape[e.k].id
  /\ \A d \in BagToSet(store) : \E k \in 1..Len(sitesToScrape) : d.catalogId = sitesToScrape[k].id

\* the walk of http://a.co/ wrote the media link of a page of another host,
\* two levels down
C8_Witness ==
  \E r \in Cycles :
    /\ Len(sitesToScrape) >= 1 /\ sitesToScrape[1].url = UA
    /\ [k |-> 1, catalogId |-> CatalogId(Bytes(UA)), videoUrl |-> M2] \in cycle[r].upsertLog

\* C9: every page fetched by recursion has the origin of the page that linked to it
C9_SameOriginOnly ==
  \A r \in Cycles :
    \A i \in 1..Len(cycle[r].fetchLog) :
      LET e == cycle[r].fetchLog[i]
      IN e.from # "" => Origin(Bytes(e.url)) = Origin(Bytes(e.from))

\* C10: a scrapeSite call is ended by the cycle guard only for a URL fetched
\* earlier in the same walk, so every walk fetches its seed, and a cycle in
\* which nothing failed has written every media link of every page under the
\* catalog id of each site whose walk fetched the page
C10_FreshVisitedSet ==
  \A r \in Cycles :
    /\ \A s \in cycle[r].skipLog : s.url \in FetchedIn(r, s.k)
    /\ \A k \in 1..Len(cycle[r].walkEnd) : sitesToScrape[k].url \in FetchedIn(r, k)
    /\ (cycle[r].rpc = "done" /\ cycle[r].clean) =>
         \A k \in 1..cycle[r].siteIdx :
           /\ VisitedAllReachable(r, k)
           /\ FetchedIn(r, k) = { u \in FetchedIn(r, k) : << k, u >> \in cycle[r].okSet }
           /\ \A u \in FetchedIn(r, k) :
                \A i \in 1..Len(ExtractData(u).videos) :
                  [k |-> k, catalogId |-> sitesToScrape[k].id, videoUrl |-> ExtractData(u).videos[i]]
                    \in cycle[r].upsertLog

\* one cycle fetched http://a.co.b.co/ in the walk of http://a.co/ and again in
\* the walk of http://a.co.b.co/, and wrote its media link under both catalog ids
C10_Witness ==
  \E r \in Cycles :
    /\ Len(sitesToScrape) = 2
    /\ sitesToScrape[1].url = UA /\ sitesToScrape[2].url = UX
    /\ UX \in FetchedIn(r, 1) /\ UX \in FetchedIn(r, 2)
    /\ [k |-> 1, catalogId |-> CatalogId(Bytes(UA)), videoUrl |-> M2] \in cycle[r].upsertLog
    /\ [k |-> 2, catalogId |-> CatalogId(Bytes(UX)), videoUrl |-> M2] \in cycle[r].upsertLog

\* the seed of the k-th site is fetched, as a top-level call, in the k-th walk of cycle r
SeedFetched(r, k) ==
  \E i \in 1..Len(cycle[r].fetchLog) :
    cycle[r].fetchLog[i] = [k |-> k, url |-> sitesToScrape[k].url, from |-> ""]

\* C11: the site list changes only by a registration, which appends one
\* {url, id} record and at once starts a refresh cycle at the head of the list;
\* that cycle, when it completes, has walked every site registered so far
C11_RegisterRefreshesWholeList ==
  /\ [][ sitesToScrape' # sitesToScrape =>
           /\ \E url \in { u \in RequestUrls : u # NoUrl /\ IsValidURL(Bytes(u)) } :
                sitesToScrape' = Append(sitesToScrape, [url |-> url, id |-> CatalogId(Bytes(url))])
           /\ nCycles' = nCycles + 1
           /\ cycle'[nCycles'].rpc = "launch"
           /\ cycle'[nCycles'].reply = "pending"
           /\ cycle'[nCycles'].siteIdx = 0
           /\ cycle'[nCycles'].atStart = Len(sitesToScrape') ]_vars
  /\ [](\A r \in Cycles :
          (cycle[r].reply = "success") =>
             /\ Len(cycle[r].walkEnd) >= cycle[r].atStart
             /\ \A k \in 1..cycle[r].atStart : SeedFetched(r, k))

\* the cycle started by the second registration has completed after walking
\* the earlier site and the new one
C11_Witness ==
  \E r \in Cycles :
    /\ cycle[r].reply = "success"
    /\ cycle[r].atStart = 2
    /\ SeedFetched(r, 1) /\ SeedFetched(r, 2)

\* C12: no two records of the site list carry the same catalog id
C12_UniqueCatalogId ==
  \A i, j \in 1..Len(sitesToScrape) :
    i # j => sitesToScrape[i].id # sitesToScrape[j].id

\* C13: a request that is not registered leaves the site list, the cycles and
\* the store as they were and is answered with an error response
C13_BadRequestRejectedWithError ==
  [][ rejected' # rejected =>
        /\ sitesToScrape' = sitesToScrape
        /\ nCycles' = nCycles
        /\ cycle' = cycle
        /\ store' = store
        /\ \E status \in {"400 Missing URL", "500 Internal Server Error"} :
             rejected' = Append(rejected, status) ]_vars

\* the browser's same-origin relation: scheme, host and port are equal
SameOrigin(u, v) == Origin(Bytes(u)) = Origin(Bytes(v))

\* the targets of the hyperlinks of the page at u
AnchorTargets(u) ==
  LET els == Document(u).elements
  IN { els[i].href : i \in { j \in 1..Len(els) : els[j].tag = "a" } }

\* the pages reached from the pages of S through at most n same-origin hyperlinks
RECURSIVE ReachableFrom(_, _)
ReachableFrom(S, n) ==
  IF n = 0 THEN S
  ELSE ReachableFrom(S \cup { v \in Urls : \E u \in S : v \in AnchorTargets(u) /\ SameOrigin(u, v) },
                     n - 1)

\* the media links of the page at u
MediaLinksOn(u) ==
  LET els == Document(u).elements
  IN { els[i].href : i \in { j \in 1..Len(els) : IsMedia(Bytes(els[j].href)) } }

\* the (catalogId, mediaUrl) pairs the registered sites should yield
ExpectedPairs ==
  { p \in { sitesToScrape[k].id : k \in 1..Len(sitesToScrape) } \X Urls :
      \E k \in 1..Len(sitesToScrape) :
        /\ p[1] = sitesToScrape[k].id
        /\ \E u \in ReachableFrom({sitesToScrape[k].url}, Cardinality(Urls)) : p[2] \in MediaLinksOn(u) }

\* the (catalogId, mediaUrl) pairs of the stored entries
StoredPairs == { << d.catalogId, d.videoUrl >> : d \in BagToSet(store) }

\* C14: when one cycle in which nothing failed has walked the whole list and
\* is the only one that has written, the store holds exactly the media links
\* of the pages reachable from each seed through same-origin links, each
\* under its site's catalog id
C14_StoreIsReachableMedia ==
  \A r \in Cycles :
    ( /\ cycle[r].rpc = "done" /\ cycle[r].clean
      /\ cycle[r].siteIdx = Len(sitesToScrape)
      /\ \A q \in Cycles \ {r} : cycle[q].upsertLog = {} )
    => StoredPairs = ExpectedPairs

\* the media urls upserted so far
Upserted == UNION { { e.videoUrl : e \in cycle[r].upsertLog } : r \in Cycles }

\* C15: the entry id is a function of the url and differs for different urls:
\* every url upserted has one entry of its own, stored under the base64 text
\* of its bytes, however often and in whatever order the urls were upserted
C15_EntryIdInjective ==
  /\ \A d \in BagToSet(store) : CopiesIn(d, store) = 1 /\ d.videoUrl \in Upserted
  /\ \A u \in Upserted : \E d \in BagToSet(store) : d.videoUrl = u
  /\ \A d1, d2 \in BagToSet(store) : (d1.id = d2.id) <=> (d1.videoUrl = d2.videoUrl)

\* two urls of the same length that differ in one character only, 'a' against
\* U+0161, have both been upserted
C15_Witness ==
  \E u1, u2 \in Upserted :
    /\ Len(u1) = MaxUrlLen /\ Len(u2) = MaxUrlLen
    /\ u1[MaxUrlLen] = 97 /\ u2[MaxUrlLen] = 353
    /\ \A i \in 1..(MaxUrlLen - 1) : u1[i] = u2[i]

\* C16: no fetchPageData call raises: no walk of any cycle is ended by an
\* exception that came out of fetchPageData
C16_FetchNeverRaises ==
  \A r \in Cycles : \A i \in 1..Len(cycle[r].walkEnd) :
    cycle[r].walkEnd[i] # "fetchPageData threw"

\* the fetch of u in walk k of cycle r was made below the fetch of root
RECURSIVE InSubtree(_, _, _, _)
InSubtree(r, k, u, root) ==
  \/ u = root
  \/ \E i \in 1..Len(cycle[r].fetchLog) :
       /\ cycle[r].fetchLog[i].k = k /\ cycle[r].fetchLog[i].url = u
       /\ cycle[r].fetchLog[i].from # ""
       /\ InSubtree(r, k, cycle[r].fetchLog[i].from, root)

\* C17: in every cycle the calls in progress form one chain: only the innermost
\* call waits for a fetch or an upsert, every outer call has upserted all the
\* media links of its page and waits for the child of the link it is at, a
\* fetch made after a later sibling was fetched is never below an earlier
\* sibling, and all earlier walks of the cycle have ended
C17_SequentialDepthFirst ==
  \A r \in Cycles :
    LET c == cycle[r]
        s == c.stack
        log == c.fetchLog
    IN /\ Cardinality({ i \in 1..Len(s) : s[i].pc \in {"fetch", "upsert"} }) <= 1
       /\ \A i \in 1..Len(s) :
            s[i].si > 0 =>
              /\ s[i].vi = Len(s[i].data.videos)
              /\ \A j \in 1..Len(s[i].data.videos) :
                   [k |-> c.siteIdx, catalogId |-> s[i].id, videoUrl |-> s[i].data.videos[j]] \in c.upsertLog
       /\ \A i \in 1..(Len(s) - 1) :
            /\ s[i].pc = "subLinks" /\ s[i].si >= 1
            /\ s[i + 1].url = s[i].data.subLinks[s[i].si]
            /\ s[i + 1].from = s[i].url
       /\ \A i, j, l \in 1..Len(log) :
            ( /\ i < j /\ j < l
              /\ log[i].k = log[j].k /\ log[j].k = log[l].k
              /\ log[i].from = log[j].from /\ log[i].from # "" )
            => ~InSubtree(r, log[l].k, log[l].url, log[i].url)
       /\ (s # << >>) =>
            /\ c.rpc = "walk"
            /\ s[1].url = sitesToScrape[c.siteIdx].url
            /\ Len(c.walkEnd) = c.siteIdx - 1
       /\ \A i, j \in 1..Len(log) : i < j => log[i].k <= log[j].k

\* the walk of the second site is under way after the first has ended, and it
\* fetches a later sibling link of a page whose media links are stored
C17_Witness ==
  \E r \in Cycles :
    LET s == cycle[r].stack
    IN /\ Len(s) = 2
       /\ s[2].pc = "fetch"
       /\ s[1].si >= 2
       /\ s[1].data.videos # << >>
       /\ cycle[r].siteIdx = 2

\* C18: a refresh that is triggered starts at once whether or not another
\* cycle is in progress, and leaves the cycles in progress as they are:
\* nothing queues, drops or delays it
C18_NoSingleFlightGuard ==
  [][ nCycles' # nCycles =>
        /\ nCycles' = nCycles + 1
        /\ cycle'[nCycles'].rpc = "launch"
        /\ \A r \in Live : cycle'[r] = cycle[r] /\ r \in Live' ]_vars

\* two cycles are in progress, each with its own browser open
C18_Witness ==
  \E r1, r2 \in Live :
    /\ r1 # r2
    /\ cycle[r1].browser = "open" /\ cycle[r2].browser = "open"
    /\ cycle[r1].rpc = "walk" /\ cycle[r2].rpc = "walk"

\* the top-level scrapeSite calls cycle r has made for the k-th site
TopLevelCalls(r, k) ==
  { i \in 1..Len(cycle[r].fetchLog) : cycle[r].fetchLog[i].k = k /\ cycle[r].fetchLog[i].from = "" }

C20_NoWriteBeforeConnect ==
  \A r \in Cycles : \A i \in 1..Len(cycle[r].walkEnd) :
    cycle[r].walkEnd[i] # "db is undefined"

=============================================================================
